---- MODULE Spec2Model ----
(***************************************************************************)
(* A model of the gophers collection library: the doubly linked List, the  *)
(* slice backed Sequence and the lazy iterator functions of package        *)
(* collection.                                                             *)
(***************************************************************************)
EXTENDS Integers, Sequences, FiniteSets, TLC

\* ---------------------------------------------------------------- bounds
MaxNodes == 4          \* nodes a List may allocate in one behaviour
MaxCap == 3            \* largest capacity of a Sequence's backing array
MaxVal == 2            \* element values are 1..MaxVal
MaxIdx == 3            \* indices handed to At and Slice are -1..MaxIdx
MaxPasses == 2         \* how many times a consumer ranges over one iterator value
IterLen == 2           \* longest source collection handed to a lazy iterator

Val == 1..MaxVal
Zero == 0              \* *new(T), the zero value of the element type
Nil == 0               \* the nil *Node

NoErr == "nil"
EmptyCollectionError == "EmptyCollectionError"
IndexOutOfBoundsError == "IndexOutOfBoundsError"
NoPanic == "none"
NilDeref == "nil pointer dereference"
SliceBounds == "slice bounds out of range"

VARIABLES
    backend,    \* "list" or "seq": the collection the caller constructed ("none" for an iterator run)
    nodes,      \* the Node heap: nodes[n] = [value, next, prev], n in 1..Len(nodes)
    head,       \* List.head (Nil or a node)
    tail,       \* List.tail
    size,       \* List.size
    elements,   \* Sequence.elements: [arr |-> backing array from the slice's start, len |-> len(elements)]
    last,       \* the last call the caller made and what it returned
    sets,       \* the maps of the Sets the caller holds: sets[s] is the key set of Set s's elements map
    it          \* a lazy iterator being driven by a consumer

vars == <<backend, nodes, head, tail, size, elements, last, sets, it>>
listVars == <<nodes, head, tail, size>>

\* ------------------------------------------------------------------ List
Node(v) == [value |-> v, next |-> Nil, prev |-> Nil]

\* the values met by following next from node n (List.Values, List.All)
RECURSIVE Walk(_, _)
Walk(n, fuel) ==
    IF n = Nil \/ fuel = 0 THEN <<>>
    ELSE <<nodes[n].value>> \o Walk(nodes[n].next, fuel - 1)

ListToSlice == Walk(head, Len(nodes))

ListLength == size

\* the nodes met by following next from head, and prev from tail
RECURSIVE FwdNodes(_, _)
FwdNodes(n, fuel) ==
    IF n = Nil \/ fuel = 0 THEN {} ELSE {n} \cup FwdNodes(nodes[n].next, fuel - 1)

RECURSIVE BwdNodes(_, _)
BwdNodes(n, fuel) ==
    IF n = Nil \/ fuel = 0 THEN {} ELSE {n} \cup BwdNodes(nodes[n].prev, fuel - 1)

\* ------------------------------------------------------------- Sequence
Cap(e) == Len(e.arr)
SeqToSlice == SubSeq(elements.arr, 1, elements.len)
SeqLength == elements.len

Zeros(n) == [k \in 1..n |-> Zero]

\* ------------------------------------------------------- caller's view
ToSlice == IF backend = "list" THEN ListToSlice ELSE SeqToSlice
Length == IF backend = "list" THEN ListLength ELSE SeqLength

Call(op, a, b, ret, out, err, pnc) ==
    [op |-> op, a |-> a, b |-> b, ret |-> ret, out |-> out, err |-> err,
     panic |-> pnc, pre |-> ToSlice, preLen |-> Length]

NoCall == [op |-> "new", a |-> 0, b |-> 0, ret |-> Zero, out |-> <<>>, err |-> NoErr,
           panic |-> NoPanic, pre |-> <<>>, preLen |-> 0]

NoIter == [kind |-> "none"]

\* ------------------------------------------------------- List operations
\* Add, and Push and Enqueue which only call it
ListAdd(v) ==
    /\ backend = "list"
    /\ Len(nodes) < MaxNodes
    /\ IF head = Nil
       THEN /\ nodes' = Append(nodes, Node(v))
            /\ head' = Len(nodes) + 1
            /\ tail' = Len(nodes) + 1
            /\ size' = size + 1
            /\ last' = Call("Add", v, 0, Zero, <<>>, NoErr, NoPanic)
       ELSE IF tail = Nil
       THEN \* l.tail.next = node with l.tail == nil
            /\ UNCHANGED listVars
            /\ last' = Call("Add", v, 0, Zero, <<>>, NoErr, NilDeref)
       ELSE /\ nodes' = Append([nodes EXCEPT ![tail].next = Len(nodes) + 1],
                               [Node(v) EXCEPT !.prev = tail])
            /\ head' = head
            /\ tail' = Len(nodes) + 1
            /\ size' = size + 1
            /\ last' = Call("Add", v, 0, Zero, <<>>, NoErr, NoPanic)
    /\ UNCHANGED <<backend, sets, elements, it>>

\* Pop with the emptiness test made on the tail pointer instead of on size
ListPopOut_TestsTail ==
    IF tail = Nil
    THEN [ret |-> Zero, err |-> EmptyCollectionError, panic |-> NoPanic, tail |-> tail, size |-> size]
    ELSE [ret |-> nodes[tail].value, err |-> NoErr, panic |-> NoPanic,
          tail |-> nodes[tail].prev, size |-> size - 1]

\* what Pop returns and the fields it leaves behind
ListPopOut ==
    IF size = 0
    THEN [ret |-> Zero, err |-> EmptyCollectionError, panic |-> NoPanic, tail |-> tail, size |-> size]
    ELSE IF tail = Nil
    THEN [ret |-> Zero, err |-> NoErr, panic |-> NilDeref, tail |-> tail, size |-> size]
    ELSE [ret |-> nodes[tail].value, err |-> NoErr, panic |-> NoPanic,
          tail |-> nodes[tail].prev, size |-> size - 1]

ListPop ==
    /\ backend = "list"
    /\ LET o == ListPopOut IN
         /\ tail' = o.tail
         /\ size' = o.size
         /\ last' = Call("Pop", 0, 0, o.ret, <<>>, o.err, o.panic)
    /\ UNCHANGED <<backend, sets, nodes, head, elements, it>>

\* what Dequeue returns and the fields it leaves behind
ListDequeueOut ==
    IF size = 0
    THEN [ret |-> Zero, err |-> EmptyCollectionError, panic |-> NoPanic, head |-> head, size |-> size]
    ELSE IF head = Nil
    THEN [ret |-> Zero, err |-> NoErr, panic |-> NilDeref, head |-> head, size |-> size]
    ELSE [ret |-> nodes[head].value, err |-> NoErr, panic |-> NoPanic,
          head |-> nodes[head].next, size |-> size - 1]

ListDequeue ==
    /\ backend = "list"
    /\ LET o == ListDequeueOut IN
         /\ head' = o.head
         /\ size' = o.size
         /\ last' = Call("Dequeue", 0, 0, o.ret, <<>>, o.err, o.panic)
    /\ UNCHANGED <<backend, sets, nodes, tail, elements, it>>

\* the node reached from n by following next k times; Nil stands for the
\* nil dereference of node.next or node.value
RECURSIVE Nth(_, _)
Nth(n, k) == IF n = Nil THEN Nil ELSE IF k = 0 THEN n ELSE Nth(nodes[n].next, k - 1)

ListAtOut(index) ==
    IF index < 0 \/ index >= size
    THEN [ret |-> Zero, panic |-> IndexOutOfBoundsError]
    ELSE IF Nth(head, index) = Nil
    THEN [ret |-> Zero, panic |-> NilDeref]
    ELSE [ret |-> nodes[Nth(head, index)].value, panic |-> NoPanic]

ListAt(index) ==
    /\ backend = "list"
    /\ last' = Call("At", index, 0, ListAtOut(index).ret, <<>>, NoErr, ListAtOut(index).panic)
    /\ UNCHANGED <<backend, sets, listVars, elements, it>>

\* the values All() yields at the indices start <= i < end, Added to a new List
ListSliceOut(start, end) ==
    IF start < 0 \/ end > size \/ start > end
    THEN [out |-> <<>>, panic |-> IndexOutOfBoundsError]
    ELSE LET all == ListToSlice
             hi == IF end < Len(all) THEN end ELSE Len(all)
         IN [out |-> SubSeq(all, start + 1, hi), panic |-> NoPanic]

ListSlice(start, end) ==
    /\ backend = "list"
    /\ last' = Call("Slice", start, end, Zero, ListSliceOut(start, end).out, NoErr,
                    ListSliceOut(start, end).panic)
    /\ UNCHANGED <<backend, sets, listVars, elements, it>>

\* --------------------------------------------------- Sequence operations
\* append(c.elements, v): in place while the backing array has room, otherwise
\* into a new array whose capacity the runtime chooses
SeqAppend(e, v, newcap) ==
    IF e.len < Cap(e)
    THEN [arr |-> [e.arr EXCEPT ![e.len + 1] = v], len |-> e.len + 1]
    ELSE [arr |-> SubSeq(e.arr, 1, e.len) \o <<v>> \o Zeros(newcap - e.len - 1),
          len |-> e.len + 1]

\* Add, and Push which is the same statement
SeqAdd(v) ==
    /\ backend = "seq"
    /\ elements.len < MaxCap
    /\ \E newcap \in (elements.len + 1)..MaxCap :
         elements' = SeqAppend(elements, v, newcap)
    /\ last' = Call("Add", v, 0, Zero, <<>>, NoErr, NoPanic)
    /\ UNCHANGED <<backend, sets, listVars, it>>

SeqPopOut ==
    IF elements.len = 0
    THEN [ret |-> Zero, err |-> EmptyCollectionError, elements |-> elements]
    ELSE [ret |-> elements.arr[elements.len], err |-> NoErr,
          elements |-> [elements EXCEPT !.len = elements.len - 1]]

SeqPop ==
    /\ backend = "seq"
    /\ elements' = SeqPopOut.elements
    /\ last' = Call("Pop", 0, 0, SeqPopOut.ret, <<>>, SeqPopOut.err, NoPanic)
    /\ UNCHANGED <<backend, sets, listVars, it>>

SeqDequeueOut ==
    IF elements.len = 0
    THEN [ret |-> Zero, err |-> EmptyCollectionError, elements |-> elements]
    ELSE [ret |-> elements.arr[1], err |-> NoErr,
          elements |-> [arr |-> Tail(elements.arr), len |-> elements.len - 1]]

SeqDequeue ==
    /\ backend = "seq"
    /\ elements' = SeqDequeueOut.elements
    /\ last' = Call("Dequeue", 0, 0, SeqDequeueOut.ret, <<>>, SeqDequeueOut.err, NoPanic)
    /\ UNCHANGED <<backend, sets, listVars, it>>

SeqAtOut(index) ==
    IF index < 0 \/ index >= elements.len
    THEN [ret |-> Zero, panic |-> IndexOutOfBoundsError]
    ELSE [ret |-> elements.arr[index + 1], panic |-> NoPanic]

SeqAt(index) ==
    /\ backend = "seq"
    /\ last' = Call("At", index, 0, SeqAtOut(index).ret, <<>>, NoErr, SeqAtOut(index).panic)
    /\ UNCHANGED <<backend, sets, listVars, elements, it>>

\* c.elements[start:end]: the slice expression is checked against the
\* capacity of c.elements, and the result shares its backing array
SeqSliceOut(start, end) ==
    IF start < 0 \/ end > Cap(elements) \/ start > end
    THEN [panic |-> SliceBounds, elements |-> elements]
    ELSE [panic |-> NoPanic,
          elements |-> [arr |-> SubSeq(elements.arr, start + 1, Cap(elements)),
                        len |-> end - start]]

SliceResult(o) == IF o.panic = NoPanic THEN SubSeq(o.elements.arr, 1, o.elements.len) ELSE <<>>

\* r := c.Slice(start, end), the caller keeps using c
SeqSlice(start, end) ==
    /\ backend = "seq"
    /\ last' = Call("Slice", start, end, Zero, SliceResult(SeqSliceOut(start, end)), NoErr,
                    SeqSliceOut(start, end).panic)
    /\ UNCHANGED <<backend, sets, listVars, elements, it>>

\* c = c.Slice(start, end).(*Sequence[T]), the caller goes on with the result
SeqReslice(start, end) ==
    /\ backend = "seq"
    /\ elements' = SeqSliceOut(start, end).elements
    /\ last' = Call("Slice", start, end, Zero, SliceResult(SeqSliceOut(start, end)), NoErr,
                    SeqSliceOut(start, end).panic)
    /\ UNCHANGED <<backend, sets, listVars, it>>

\* ------------------------------------------------------- specification
Idx == -1..MaxIdx

\* NewList() and NewSequence(): an empty collection of either backend
Init ==
    /\ backend \in {"list", "seq"}
    /\ nodes = <<>>
    /\ head = Nil
    /\ tail = Nil
    /\ size = 0
    /\ elements = [arr |-> <<>>, len |-> 0]
    /\ last = NoCall
    /\ sets = <<>>
    /\ it = NoIter

Next ==
    \/ \E v \in Val : ListAdd(v)
    \/ ListPop
    \/ ListDequeue
    \/ \E i \in Idx : ListAt(i)
    \/ \E s, e \in Idx : ListSlice(s, e)
    \/ \E v \in Val : SeqAdd(v)
    \/ SeqPop
    \/ SeqDequeue
    \/ \E i \in Idx : SeqAt(i)
    \/ \E s, e \in Idx : SeqSlice(s, e)
    \/ \E s, e \in Idx : SeqReslice(s, e)

Spec == Init /\ [][Next]_vars

\* -------------------------------------------------------- lazy iterators
\* the collections, predicates, mappers and equality functions a caller passes
Srcs == UNION {[1..n -> Val] : n \in 0..IterLen}
Preds == SUBSET Val
Mappers == [Val -> Val]
Same == {p \in Val \X Val : p[1] = p[2]}
EqFuncs == {Same, {p \in Val \X Val : p[1] <= p[2]}, Val \X Val}

IterKinds == {"Concatenated", "Diffed", "DiffedFunc", "Distincted", "DistinctedFunc",
              "Filtered", "Intersected", "IntersectedFunc", "Mapped", "Rejected"}

\* the iterator value a constructor returns, handed to a consumer: a for-range
\* loop ("range") or a function called as seq(yield) ("func")
NewIter(kind, s1, s2, pred, eq, mapf, consumer) ==
    [kind |-> kind, s1 |-> s1, s2 |-> s2, pred |-> pred, eq |-> eq, mapf |-> mapf,
     consumer |-> consumer,
     i |-> 0,               \* elements of the outer loop already handled
     j |-> 0,               \* elements of the inner loop already handled
     seen |-> <<>>,         \* Distincted's seen map, DistinctedFunc's s2, in insertion order
     stopped |-> FALSE,     \* yield has returned false
     yielded |-> <<>>,      \* the values the consumer received
     lateYields |-> 0,      \* calls of yield made after it returned false
     lateCalls |-> 0,       \* calls of f or == made after yield returned false
     pass |-> 1,            \* how many times the consumer has ranged over the iterator value
     first |-> <<>>,        \* the values the consumer received in the first pass
     status |-> "running"]

\* yield(v) answered with r by the consumer. A for-range loop whose body has
\* exited panics when the iterator calls yield again.
Yield(st, v, r) ==
    IF st.stopped
    THEN IF st.consumer = "range"
         THEN [st EXCEPT !.lateYields = @ + 1, !.status = "panic"]
         ELSE [st EXCEPT !.lateYields = @ + 1, !.yielded = Append(@, v)]
    ELSE [st EXCEPT !.yielded = Append(@, v), !.stopped = ~r]

\* n calls of a caller supplied function or of ==
Calls(st, n) == IF st.stopped THEN [st EXCEPT !.lateCalls = @ + n] ELSE st

\* the number of elements of q tested until the first one n with <<v, n>> in
\* rel (all of them when there is none), and whether there is one
RECURSIVE FirstMatch(_, _, _)
FirstMatch(q, v, rel) ==
    IF q = <<>> THEN [calls |-> 0, found |-> FALSE]
    ELSE IF <<v, Head(q)>> \in rel THEN [calls |-> 1, found |-> TRUE]
    ELSE [calls |-> 1 + FirstMatch(Tail(q), v, rel).calls,
          found |-> FirstMatch(Tail(q), v, rel).found]

Running == it.status = "running"
IterStep(st) == backend = "none" /\ it' = st /\ UNCHANGED <<backend, sets, listVars, elements, last>>

\* Concatenated: one iteration of the loop over s1, then of the loop over s2
ConcatenatedStep(r) ==
    /\ Running /\ it.kind = "Concatenated"
    /\ it.i < Len(it.s1) + Len(it.s2)
    /\ IterStep(Yield([it EXCEPT !.i = @ + 1], (it.s1 \o it.s2)[it.i + 1], r))

\* a Diffed that yields the values it found in s2
DiffedStep_YieldsFound(r) ==
    /\ Running /\ it.kind \in {"Diffed", "DiffedFunc"}
    /\ it.i < Len(it.s1)
    /\ LET v == it.s1[it.i + 1]
           m == FirstMatch(it.s2, v, it.eq)
           st == Calls([it EXCEPT !.i = @ + 1], m.calls)
       IN IterStep(IF m.found THEN Yield(st, v, r) ELSE st)

\* Diffed and DiffedFunc: Find over s2, then yield when nothing was found
DiffedStep(r) ==
    /\ Running /\ it.kind \in {"Diffed", "DiffedFunc"}
    /\ it.i < Len(it.s1)
    /\ LET v == it.s1[it.i + 1]
           m == FirstMatch(it.s2, v, it.eq)
           st == Calls([it EXCEPT !.i = @ + 1], m.calls)
       IN IterStep(IF m.found THEN st ELSE Yield(st, v, r))

\* Distincted: the seen map is tested and updated, a new value is yielded
DistinctedStep(r) ==
    /\ Running /\ it.kind = "Distincted"
    /\ it.i < Len(it.s1)
    /\ LET v == it.s1[it.i + 1]
           st == [it EXCEPT !.i = @ + 1]
       IN IterStep(IF \E k \in 1..Len(it.seen) : it.seen[k] = v
                   THEN st
                   ELSE Yield([st EXCEPT !.seen = Append(@, v)], v, r))

\* DistinctedFunc: f(v, v2) over s2 up to the first match, else s2.Add(v) and yield
DistinctedFuncStep(r) ==
    /\ Running /\ it.kind = "DistinctedFunc"
    /\ it.i < Len(it.s1)
    /\ LET v == it.s1[it.i + 1]
           m == FirstMatch(it.seen, v, it.eq)
           st == Calls([it EXCEPT !.i = @ + 1], m.calls)
       IN IterStep(IF m.found THEN st
                   ELSE Yield([st EXCEPT !.seen = Append(@, v)], v, r))

\* Filtered, and Rejected which is Filtered with the negated predicate
FilteredStep(r) ==
    /\ Running /\ it.kind \in {"Filtered", "Rejected"}
    /\ it.i < Len(it.s1)
    /\ LET v == it.s1[it.i + 1]
           keep == IF it.kind = "Filtered" THEN v \in it.pred ELSE v \notin it.pred
           st == Calls([it EXCEPT !.i = @ + 1], 1)
       IN IterStep(IF keep THEN Yield(st, v, r) ELSE st)

\* Intersected and IntersectedFunc: one iteration of the inner loop over s2
IntersectedStep(r) ==
    /\ Running /\ it.kind \in {"Intersected", "IntersectedFunc"}
    /\ it.i < Len(it.s1) /\ it.j < Len(it.s2)
    /\ LET v == it.s1[it.i + 1]
           v2 == it.s2[it.j + 1]
           adv == IF it.j + 1 = Len(it.s2)
                  THEN [it EXCEPT !.i = @ + 1, !.j = 0]
                  ELSE [it EXCEPT !.j = @ + 1]
           st == Calls(adv, 1)
       IN IterStep(IF <<v, v2>> \in it.eq THEN Yield(st, v, r) ELSE st)

\* Mapped: yield(f(v))
MappedStep(r) ==
    /\ Running /\ it.kind = "Mapped"
    /\ it.i < Len(it.s1)
    /\ IterStep(Yield(Calls([it EXCEPT !.i = @ + 1], 1), it.mapf[it.s1[it.i + 1]], r))

\* the loops are over and the iterator function returns
OuterLen(st) ==
    IF st.kind = "Concatenated" THEN Len(st.s1) + Len(st.s2)
    ELSE IF st.kind \in {"Intersected", "IntersectedFunc"} /\ st.s2 = <<>> THEN 0
    ELSE Len(st.s1)

IterReturn ==
    /\ Running
    /\ it.i >= OuterLen(it)
    /\ IterStep([it EXCEPT !.status = "done"])

NoMap == [v \in Val |-> v]

IterInit ==
    /\ backend = "none"
    /\ nodes = <<>>
    /\ head = Nil
    /\ tail = Nil
    /\ size = 0
    /\ elements = [arr |-> <<>>, len |-> 0]
    /\ last = NoCall
    /\ sets = <<>>
    /\ \E s1 \in Srcs, consumer \in {"range", "func"} :
         \/ \E s2 \in Srcs : it = NewIter("Concatenated", s1, s2, {}, {}, NoMap, consumer)
         \/ \E s2 \in Srcs : it = NewIter("Diffed", s1, s2, {}, Same, NoMap, consumer)
         \/ \E s2 \in Srcs, eq \in EqFuncs : it = NewIter("DiffedFunc", s1, s2, {}, eq, NoMap, consumer)
         \/ it = NewIter("Distincted", s1, <<>>, {}, Same, NoMap, consumer)
         \/ \E eq \in EqFuncs : it = NewIter("DistinctedFunc", s1, <<>>, {}, eq, NoMap, consumer)
         \/ \E pred \in Preds : it = NewIter("Filtered", s1, <<>>, pred, {}, NoMap, consumer)
         \/ \E s2 \in Srcs : it = NewIter("Intersected", s1, s2, {}, Same, NoMap, consumer)
         \/ \E s2 \in Srcs, eq \in EqFuncs : it = NewIter("IntersectedFunc", s1, s2, {}, eq, NoMap, consumer)
         \/ \E mapf \in Mappers : it = NewIter("Mapped", s1, <<>>, {}, {}, mapf, consumer)
         \/ \E pred \in Preds : it = NewIter("Rejected", s1, <<>>, pred, {}, NoMap, consumer)

IterNext ==
    \/ \E r \in BOOLEAN : ConcatenatedStep(r)
    \/ \E r \in BOOLEAN : DiffedStep(r)
    \/ \E r \in BOOLEAN : DistinctedStep(r)
    \/ \E r \in BOOLEAN : DistinctedFuncStep(r)
    \/ \E r \in BOOLEAN : FilteredStep(r)
    \/ \E r \in BOOLEAN : IntersectedStep(r)
    \/ \E r \in BOOLEAN : MappedStep(r)
    \/ IterReturn

SpecIter == IterInit /\ [][IterNext]_vars

\* The consumer ranges over the same iterator value again: the function runs
\* from its start, with the variables its closure captured when the
\* constructor ran (Distincted's seen, DistinctedFunc's s2) as the pass before
\* left them.
IterAgain ==
    /\ it.status = "done"
    /\ ~it.stopped
    /\ it.pass < MaxPasses
    /\ IterStep([it EXCEPT !.pass = @ + 1, !.first = IF it.pass = 1 THEN it.yielded ELSE @,
                           !.i = 0, !.j = 0, !.yielded = <<>>, !.status = "running"])

AgainNext ==
    \/ IterNext
    \/ IterAgain

SpecAgain == IterInit /\ [][AgainNext]_vars

\* ------------------------------------------------------------------- Set
\* The caller holds two Sets, 1 and 2; the Set a call returns is Set 3, which
\* replaces the result of the call before.
SetIds == {1, 2}
ResultId == 3

\* a Set allocated with the elements map m
AllocSet(h, m) == SubSeq(h, 1, 2) \o <<m>>

\* s.Add(k) for every k of keys, and delete(s.elements, k) for every k of keys
RECURSIVE AddAll(_, _, _)
AddAll(h, s, keys) ==
    IF keys = {} THEN h
    ELSE LET k == CHOOSE k \in keys : TRUE
         IN AddAll([h EXCEPT ![s] = @ \cup {k}], s, keys \ {k})

RECURSIVE DeleteAll(_, _, _)
DeleteAll(h, s, keys) ==
    IF keys = {} THEN h
    ELSE LET k == CHOOSE k \in keys : TRUE
         IN DeleteAll([h EXCEPT ![s] = @ \ {k}], s, keys \ {k})

SetCall(op, a, b, res, f) == [op |-> op, a |-> a, b |-> b, res |-> res, f |-> f, pre |-> sets]

SetStep(h, c) ==
    /\ backend = "set"
    /\ sets' = h
    /\ last' = c
    /\ UNCHANGED <<backend, listVars, elements, it>>

\* Set.Add and Set.Remove
SetAdd(s, v) == SetStep([sets EXCEPT ![s] = @ \cup {v}], SetCall("SetAdd", s, v, s, <<>>))

SetRemove(s, v) == SetStep([sets EXCEPT ![s] = @ \ {v}], SetCall("SetRemove", s, v, s, <<>>))

\* Union: result := s.Clone(), then result.Add(k) for every k of s2
SetUnionOut(h, s, s2) ==
    [heap |-> AddAll(AllocSet(h, h[s]), ResultId, h[s2]), res |-> ResultId]

SetUnion(s, s2) ==
    SetStep(SetUnionOut(sets, s, s2).heap, SetCall("Union", s, s2, SetUnionOut(sets, s, s2).res, <<>>))

\* Intersection that looks the keys of s2 up in the result instead of in s
SetIntersectionOut_TestsResult(h, s, s2) ==
    [heap |-> AddAll(AllocSet(h, {}), ResultId, {k \in h[s2] : k \in {}}), res |-> ResultId]

\* Intersection: result := NewSet(), then result.Add(k) for every k of s2 that s holds
SetIntersectionOut(h, s, s2) ==
    [heap |-> AddAll(AllocSet(h, {}), ResultId, {k \in h[s2] : k \in h[s]}), res |-> ResultId]

SetIntersection(s, s2) ==
    SetStep(SetIntersectionOut(sets, s, s2).heap,
            SetCall("Intersection", s, s2, SetIntersectionOut(sets, s, s2).res, <<>>))

\* Diff that deletes from the receiver's own map instead of from a clone
SetDiffOut_NoClone(h, s, set) ==
    [heap |-> DeleteAll(h, s, h[set]), res |-> s]

\* Diff: newSet := s.Clone(), then delete(newSet.elements, k) for every k of set
SetDiffOut(h, s, set) ==
    [heap |-> DeleteAll(AllocSet(h, h[s]), ResultId, h[set]), res |-> ResultId]

SetDiff(s, set) ==
    SetStep(SetDiffOut(sets, s, set).heap, SetCall("Diff", s, set, SetDiffOut(sets, s, set).res, <<>>))

\* Equals: the lengths agree and s2 contains every key of s
SetEquals(h, s, s2) ==
    IF Cardinality(h[s]) # Cardinality(h[s2]) THEN FALSE
    ELSE \A k \in h[s] : k \in h[s2]

\* IsEmpty: s.Length() == 0
SetIsEmpty(h, s) == Cardinality(h[s]) = 0

\* Apply ranges over s.elements while it removes k and adds f(k). The range
\* produces every entry not yet reached unless it was removed; an entry
\* created during the range may be produced or skipped. The maps the loop can
\* end with, from map m with the keys todo still to be produced:
RECURSIVE ApplyRuns(_, _, _, _)
ApplyRuns(m, todo, done, f) ==
    IF todo = {} THEN {m}
    ELSE UNION {
        LET v == f[k]
            created == v \notin m \ {k}
            m1 == (m \ {k}) \cup {v}
            todo1 == todo \ {k}
            done1 == done \cup {k}
        IN ApplyRuns(m1, todo1, done1, f)
           \cup (IF created /\ v \notin done1
                 THEN ApplyRuns(m1, todo1 \cup {v}, done1, f) ELSE {})
        : k \in todo }

SetApply(s, f) ==
    \E m \in ApplyRuns(sets[s], sets[s], {}, f) :
        SetStep([sets EXCEPT ![s] = m], SetCall("Apply", s, 0, s, f))

\* NewSet(a) and NewSet(b)
SetInit ==
    /\ backend = "set"
    /\ nodes = <<>>
    /\ head = Nil
    /\ tail = Nil
    /\ size = 0
    /\ elements = [arr |-> <<>>, len |-> 0]
    /\ last = NoCall
    /\ \E a, b \in SUBSET Val : sets = <<a, b>>
    /\ it = NoIter

SetNext ==
    \/ \E s \in SetIds, v \in Val : SetAdd(s, v)
    \/ \E s \in SetIds, v \in Val : SetRemove(s, v)
    \/ \E s, s2 \in SetIds : SetUnion(s, s2)
    \/ \E s, s2 \in SetIds : SetIntersection(s, s2)
    \/ \E s, s2 \in SetIds : SetDiff(s, s2)
    \/ \E s \in SetIds, f \in Mappers : SetApply(s, f)

SpecSet == SetInit /\ [][SetNext]_vars

\* ------------------------------------------- the OrderedCollection view
\* what the generic functions see of the caller's collection
Values == ToSlice

AtOut(index) == IF backend = "list" THEN ListAtOut(index) ELSE SeqAtOut(index)

SliceOut(start, end) ==
    IF backend = "list" THEN ListSliceOut(start, end)
    ELSE [out |-> SliceResult(SeqSliceOut(start, end)), panic |-> SeqSliceOut(start, end).panic]

\* Random(): the element at index r = rand.Intn(Length()), the zero value when empty
RandomOut(r) ==
    IF Length = 0 THEN [ret |-> Zero, panic |-> NoPanic]
    ELSE IF backend = "list" THEN ListAtOut(r) ELSE [ret |-> elements.arr[r + 1], panic |-> NoPanic]

Min2(a, b) == IF a < b THEN a ELSE b

\* the first panic of two calls made one after the other
Then(p1, p2) == IF p1 # NoPanic THEN p1 ELSE p2

\* the call of a generic function on the caller's collection and its results
ECall(op, a, f, ret, out, out2, err, pnc, post) ==
    [op |-> op, a |-> a, b |-> 0, f |-> f, ret |-> ret, out |-> out, out2 |-> out2,
     err |-> err, panic |-> pnc, pre |-> ToSlice, preLen |-> Length, post |-> post]

\* the generic functions read the collection and leave it alone
EagerStep(c) ==
    /\ backend \in {"list", "seq"}
    /\ last' = c
    /\ UNCHANGED <<backend, sets, listVars, elements, it>>

\* the calls that change the collection
Mutate ==
    \/ \E v \in Val : ListAdd(v)
    \/ ListPop
    \/ ListDequeue
    \/ \E v \in Val : SeqAdd(v)
    \/ SeqPop
    \/ SeqDequeue

\* ------------------------------------------- Head, Last, MaxBy, MinBy
\* Head that asks for element 0 without testing the length
HeadOut_NoLengthTest ==
    [ret |-> AtOut(0).ret, err |-> NoErr, panic |-> AtOut(0).panic]

HeadOut ==
    IF Length = 0 THEN [ret |-> Zero, err |-> EmptyCollectionError, panic |-> NoPanic]
    ELSE [ret |-> AtOut(0).ret, err |-> NoErr, panic |-> AtOut(0).panic]

LastOut ==
    IF Length = 0 THEN [ret |-> Zero, err |-> EmptyCollectionError, panic |-> NoPanic]
    ELSE [ret |-> AtOut(Length - 1).ret, err |-> NoErr, panic |-> AtOut(Length - 1).panic]

\* the key functions f handed to MaxBy and MinBy
KeyFuncs == {[v \in Val |-> v], [v \in Val |-> 0], [v \in Val |-> 0 - v]}

\* the loop of MaxBy (up = TRUE) and of MinBy over the values vals, begun with element e
RECURSIVE Extreme(_, _, _, _)
Extreme(vals, f, e, up) ==
    IF vals = <<>> THEN e
    ELSE LET v == Head(vals)
             better == IF up THEN f[v] > f[e] ELSE f[v] < f[e]
         IN Extreme(Tail(vals), f, IF better THEN v ELSE e, up)

\* MaxBy and MinBy: the loop begins with s.Random()
ExtremeByOut(f, r, up) ==
    IF Length = 0 THEN [ret |-> Zero, err |-> EmptyCollectionError, panic |-> NoPanic]
    ELSE IF RandomOut(r).panic # NoPanic
    THEN [ret |-> Zero, err |-> NoErr, panic |-> RandomOut(r).panic]
    ELSE [ret |-> Extreme(Values, f, RandomOut(r).ret, up), err |-> NoErr, panic |-> NoPanic]

RandIdx == 0..(IF Length = 0 THEN 0 ELSE Length - 1)

EHead == EagerStep(ECall("Head", 0, <<>>, HeadOut.ret, <<>>, <<>>, HeadOut.err, HeadOut.panic, ToSlice))

ELast == EagerStep(ECall("Last", 0, <<>>, LastOut.ret, <<>>, <<>>, LastOut.err, LastOut.panic, ToSlice))

EMaxBy(f, r) ==
    LET o == ExtremeByOut(f, r, TRUE)
    IN EagerStep(ECall("MaxBy", r, f, o.ret, <<>>, <<>>, o.err, o.panic, ToSlice))

EMinBy(f, r) ==
    LET o == ExtremeByOut(f, r, FALSE)
    IN EagerStep(ECall("MinBy", r, f, o.ret, <<>>, <<>>, o.err, o.panic, ToSlice))

QueryNext ==
    \/ Mutate
    \/ EHead
    \/ ELast
    \/ \E f \in KeyFuncs, r \in RandIdx : EMaxBy(f, r)
    \/ \E f \in KeyFuncs, r \in RandIdx : EMinBy(f, r)

SpecQuery == Init /\ [][QueryNext]_vars

\* ------------------------------------------------ SplitAt, Take, Drop
\* collection.SplitAt(s, n): s.Slice(0, n), s.Slice(n, s.Length())
SplitAtOut(n) ==
    [left |-> SliceOut(0, n).out, right |-> SliceOut(n, Length).out,
     panic |-> Then(SliceOut(0, n).panic, SliceOut(n, Length).panic)]

\* a List.SplitAt that puts the elements of index i < n on the left
ListSplitAtOut_Exclusive(n) ==
    LET all == ListToSlice
        k == Cardinality({i \in 0..(Len(all) - 1) : i < n})
    IN [left |-> SubSeq(all, 1, k), right |-> SubSeq(all, k + 1, Len(all)), panic |-> NoPanic]

\* List.SplitAt(n): the elements All() yields with index i <= n are Added to
\* left, the others to right
ListSplitAtOut(n) ==
    LET all == ListToSlice
        k == Cardinality({i \in 0..(Len(all) - 1) : i <= n})
    IN [left |-> SubSeq(all, 1, k), right |-> SubSeq(all, k + 1, Len(all)), panic |-> NoPanic]

\* Sequence.SplitAt(n): NewSequence(c.elements[:n+1]), NewSequence(c.elements[n+1:])
SeqSplitAtOut(n) ==
    IF n + 1 < 0 \/ n + 1 > Cap(elements) \/ n + 1 > elements.len
    THEN [left |-> <<>>, right |-> <<>>, panic |-> SliceBounds]
    ELSE [left |-> SubSeq(elements.arr, 1, n + 1),
          right |-> SubSeq(elements.arr, n + 2, elements.len), panic |-> NoPanic]

\* Take(s, n)
TakeOut(n) ==
    IF n <= 0 THEN [out |-> <<>>, panic |-> NoPanic]
    ELSE SliceOut(0, Min2(n, Length))

\* Drop(s, n)
DropOut(n) ==
    IF n <= 0 THEN [out |-> ToSlice, panic |-> NoPanic]
    ELSE IF n >= Length THEN [out |-> <<>>, panic |-> NoPanic]
    ELSE SliceOut(n, Length)

\* l.SplitAt(n) / c.SplitAt(n), the methods of the two backends
ESplitAt(n) ==
    LET o == IF backend = "list" THEN ListSplitAtOut(n) ELSE SeqSplitAtOut(n)
    IN EagerStep(ECall("SplitAt", n, <<>>, Zero, o.left, o.right, NoErr, o.panic, ToSlice))

ETake(n) ==
    EagerStep(ECall("Take", n, <<>>, Zero, TakeOut(n).out, <<>>, NoErr, TakeOut(n).panic, ToSlice))

EDrop(n) ==
    EagerStep(ECall("Drop", n, <<>>, Zero, DropOut(n).out, <<>>, NoErr, DropOut(n).panic, ToSlice))

SplitNext ==
    \/ Mutate
    \/ \E n \in Idx : ESplitAt(n)
    \/ \E n \in Idx : ETake(n)
    \/ \E n \in Idx : EDrop(n)

SpecSplit == Init /\ [][SplitNext]_vars

\* --------------------------- Filter, FilterNot, Diff, Intersect, Distinct
\* The generic functions work on the values s.Values() yields. Each returns
\* out, the values of the collection it built, and src, the values of its
\* input s when it returns.
RECURSIVE FilterLoop(_, _, _)
FilterLoop(vals, pred, result) ==
    IF vals = <<>> THEN result
    ELSE FilterLoop(Tail(vals), pred,
                    IF Head(vals) \in pred THEN Append(result, Head(vals)) ELSE result)

\* a Filter that Adds to s itself instead of to s.New()
Filter_IntoSource(vals, pred) ==
    [out |-> vals \o FilterLoop(vals, pred, <<>>), src |-> vals \o FilterLoop(vals, pred, <<>>)]

\* Filter(s, f): result := s.New(), result.Add(v) for every v with f(v)
Filter(vals, pred) == [out |-> FilterLoop(vals, pred, <<>>), src |-> vals]

\* a FilterNot that hands f itself to Filter
FilterNot_NotNegated(vals, pred) == Filter(vals, pred)

\* FilterNot(s, f): Filter(s, !f)
FilterNot(vals, pred) == Filter(vals, {t \in Val : t \notin pred})

\* the predicate of Diff and Intersect: some v of s2.Values() has v == t
InValues(vals2) == {t \in Val : FirstMatch(vals2, t, Same).found}

Diff(vals1, vals2) == FilterNot(vals1, InValues(vals2))

Intersect(vals1, vals2) == Filter(vals1, InValues(vals2))

\* Distinct(s, f): s2 := s.New(), a value is Added to s2 unless f(v, v2)
\* holds for some v2 already in s2
RECURSIVE DistinctLoop(_, _, _)
DistinctLoop(vals, eq, s2) ==
    IF vals = <<>> THEN s2
    ELSE DistinctLoop(Tail(vals), eq,
                      IF FirstMatch(s2, Head(vals), eq).found THEN s2 ELSE Append(s2, Head(vals)))

\* a Distinct that Adds every value without looking for a match
Distinct_KeepsAll(vals, eq) == [out |-> vals, src |-> vals]

Distinct(vals, eq) == [out |-> DistinctLoop(vals, eq, <<>>), src |-> vals]

\* ComparableList.Distinct: a map m of the values met, r the new list
RECURSIVE SeenLoop(_, _, _)
SeenLoop(vals, m, r) ==
    IF vals = <<>> THEN r
    ELSE IF Head(vals) \in m THEN SeenLoop(Tail(vals), m, r)
    ELSE SeenLoop(Tail(vals), m \cup {Head(vals)}, Append(r, Head(vals)))

ComparableListDistinct(vals) == [out |-> SeenLoop(vals, {}, <<>>), src |-> vals]

\* Map(s, f): the slice of the f(v)
Map(vals, mapf) == [i \in 1..Len(vals) |-> mapf[vals[i]]]

\* the second argument of Diff and Intersect: the collection itself, or
\* another collection of the caller
Arg2(self, other) == [self |-> self, arg |-> IF self THEN ToSlice ELSE other]

EFilter(pred) ==
    LET o == Filter(Values, pred)
    IN EagerStep(ECall("Filter", 0, pred, Zero, o.out, <<>>, NoErr, NoPanic, o.src))

EFilterNot(pred) ==
    LET o == FilterNot(Values, pred)
    IN EagerStep(ECall("FilterNot", 0, pred, Zero, o.out, <<>>, NoErr, NoPanic, o.src))

\* Diff(c, c2): out2 is c2.ToSlice() after the call
EDiff(self, other) ==
    LET o == Diff(Values, Arg2(self, other).arg)
    IN EagerStep(ECall("Diff", 0, Arg2(self, other), Zero, o.out,
                       IF self THEN o.src ELSE other, NoErr, NoPanic, o.src))

EIntersect(self, other) ==
    LET o == Intersect(Values, Arg2(self, other).arg)
    IN EagerStep(ECall("Intersect", 0, Arg2(self, other), Zero, o.out,
                       IF self THEN o.src ELSE other, NoErr, NoPanic, o.src))

EDistinct(eq) ==
    LET o == Distinct(Values, eq)
    IN EagerStep(ECall("Distinct", 0, eq, Zero, o.out, <<>>, NoErr, NoPanic, o.src))

EComparableListDistinct ==
    /\ backend = "list"
    /\ LET o == ComparableListDistinct(Values)
       IN EagerStep(ECall("ComparableList.Distinct", 0, Same, Zero, o.out, <<>>, NoErr, NoPanic, o.src))

\* the other collections a caller hands to Diff and Intersect
Others == {q \in Srcs : Len(q) <= 1} \cup {<<1, MaxVal>>}

FilterNext ==
    \/ Mutate
    \/ \E pred \in Preds : EFilter(pred)
    \/ \E pred \in Preds : EFilterNot(pred)

SpecFilter == Init /\ [][FilterNext]_vars

DiffNext ==
    \/ Mutate
    \/ \E other \in Others : EDiff(FALSE, other)
    \/ EDiff(TRUE, <<>>)
    \/ \E other \in Others : EIntersect(FALSE, other)
    \/ EIntersect(TRUE, <<>>)
    \/ \E eq \in EqFuncs : EDistinct(eq)
    \/ EComparableListDistinct

SpecDiff == Init /\ [][DiffNext]_vars

\* ------------------------------------- the concrete kind of the results
\* The concrete types a caller can have built on each backend. The Comparable
\* types embed List and Sequence and inherit their methods.
KindsOf(b) ==
    IF b = "list" THEN {"List", "ComparableList"}
    ELSE IF b = "seq" THEN {"Sequence", "ComparableSequence"}
    ELSE {"Set"}

\* s.New() and s.NewOrdered(): every concrete type defines its own
NewKind(k) == k

NewOrderedKind(k) == k

\* s.Slice(start, end): defined by List and Sequence only, ComparableList and
\* ComparableSequence get the promoted method, which builds a List / Sequence
SliceKind(k) ==
    IF k = "ComparableList" THEN "List"
    ELSE IF k = "ComparableSequence" THEN "Sequence"
    ELSE k

Max2(a, b) == IF a > b THEN a ELSE b

UnorderedAlgs == {"Filter", "FilterNot", "Diff", "Intersect", "Distinct", "Partition"}
OrderedAlgs == {"Reverse", "Init", "Tail"}
IndexedAlgs == {"Take", "TakeRight", "Drop", "DropRight", "SplitAt", "Slice"}

\* the kinds of the collections alg returns for an input of kind k, and the
\* panic of the Slice calls it makes
ResultKinds(alg, k, n) ==
    LET none(kinds) == [kinds |-> kinds, panic |-> NoPanic]
        slice(start, end) == [kinds |-> <<SliceKind(k)>>, panic |-> SliceOut(start, end).panic]
    IN CASE alg \in {"Filter", "FilterNot", "Diff", "Intersect", "Distinct"} -> none(<<NewKind(k)>>)
         [] alg = "Partition" -> none(<<NewKind(k), NewKind(k)>>)
         [] alg = "Reverse" -> none(<<NewOrderedKind(k)>>)
         [] alg = "Init" -> IF Length = 0 THEN none(<<k>>) ELSE slice(0, Length - 1)
         [] alg = "Tail" -> IF Length = 0 THEN none(<<k>>) ELSE slice(1, Length)
         [] alg = "Take" -> IF n <= 0 THEN none(<<NewOrderedKind(k)>>)
                            ELSE slice(0, Min2(n, Length))
         [] alg = "TakeRight" -> IF n <= 0 THEN none(<<NewOrderedKind(k)>>)
                                 ELSE slice(Max2(Length - n, 0), Length)
         [] alg = "Drop" -> IF n <= 0 THEN none(<<k>>)
                            ELSE IF n >= Length THEN none(<<NewOrderedKind(k)>>)
                            ELSE slice(n, Length)
         [] alg = "DropRight" -> IF n <= 0 THEN none(<<k>>)
                                 ELSE IF n >= Length THEN none(<<NewOrderedKind(k)>>)
                                 ELSE slice(0, Length - n)
         [] alg = "SplitAt" -> [kinds |-> <<SliceKind(k), SliceKind(k)>>,
                                panic |-> Then(SliceOut(0, n).panic, SliceOut(n, Length).panic)]
         [] alg = "Slice" -> slice(0, n)

\* the call alg(c, ...) on a collection of concrete type k
KindCall(alg, k, n) ==
    [op |-> alg, a |-> n, kind |-> k, out |-> ResultKinds(alg, k, n).kinds,
     panic |-> ResultKinds(alg, k, n).panic]

EGeneric(alg, k, n) ==
    /\ k \in KindsOf(backend)
    /\ alg \in UnorderedAlgs \/ backend \in {"list", "seq"}
    /\ last' = KindCall(alg, k, n)
    /\ UNCHANGED <<backend, sets, listVars, elements, it>>

\* the n handed to the indexed algorithms: none, one, and more than there are
KindIdx == {0, 1, MaxIdx}

KindInit == Init \/ SetInit

\* Add and Pop bring the collection to every Length() the algorithms branch on
KindNext ==
    \/ \E v \in Val : ListAdd(v)
    \/ ListPop
    \/ \E v \in Val : SeqAdd(v)
    \/ SeqPop
    \/ \E s \in SetIds, v \in Val : SetAdd(s, v)
    \/ \E s \in SetIds, v \in Val : SetRemove(s, v)
    \/ \E k \in KindsOf(backend), alg \in UnorderedAlgs \cup OrderedAlgs : EGeneric(alg, k, 0)
    \/ \E k \in KindsOf(backend), alg \in IndexedAlgs, n \in KindIdx : EGeneric(alg, k, n)

SpecKind == KindInit /\ [][KindNext]_vars

\* ------------------------------------------------- Backward and Reverse
\* List.Backward: i starts at l.size - 1, the nodes are met by following prev
\* from l.tail until nil; the pairs (i, node.value) it yields to a consumer
\* that takes them all
RECURSIVE BackWalk(_, _, _)
BackWalk(n, i, fuel) ==
    IF n = Nil \/ fuel = 0 THEN <<>>
    ELSE <<<<i, nodes[n].value>>>> \o BackWalk(nodes[n].prev, i - 1, fuel - 1)

ListBackward == BackWalk(tail, size - 1, Len(nodes))

\* slices.Backward(c.elements)
SeqBackward ==
    [k \in 1..elements.len |-> <<elements.len - k, elements.arr[elements.len - k + 1]>>]

Backward == IF backend = "list" THEN ListBackward ELSE SeqBackward

\* Backward of the collection NewOrdered() and Add(q[1]), ..., Add(q[n]) build
FreshBackward(q) == [k \in 1..Len(q) |-> <<Len(q) - k, q[Len(q) - k + 1]>>]

\* the values of the collection a loop `c.Add(v)` over the pairs builds
AddedValues(pairs) == [k \in 1..Len(pairs) |-> pairs[k][2]]

\* Reverse(s): c := s.NewOrdered(), c.Add(v) for the pairs of s.Backward()
ReverseOut == AddedValues(Backward)

\* Reverse(Reverse(s)): the second call works on the collection the first built
ReverseTwiceOut == AddedValues(FreshBackward(ReverseOut))

EBackward == EagerStep(ECall("Backward", 0, <<>>, Zero, Backward, <<>>, NoErr, NoPanic, ToSlice))

EReverse ==
    EagerStep(ECall("Reverse", 0, <<>>, Zero, ReverseOut, ReverseTwiceOut, NoErr, NoPanic, ToSlice))

BackwardNext ==
    \/ Mutate
    \/ EBackward
    \/ EReverse

SpecBackward == Init /\ [][BackwardNext]_vars

\* ------------------------------------------------ Distinct applied twice
\* the functions f a caller hands to Distinct: the equalities of EqFuncs and
\* relations that are not reflexive, not symmetric or not transitive
Rels == EqFuncs \cup {{p \in Val \X Val : p[1] < p[2]},
                      {p \in Val \X Val : p[1] # p[2]},
                      {}}

\* Distinct(Distinct(c, f), f): out is the first result, out2 the second
EDistinctTwice(eq) ==
    LET o == Distinct(Values, eq)
    IN EagerStep(ECall("Distinct.Distinct", 0, eq, Zero, o.out, Distinct(o.out, eq).out,
                       NoErr, NoPanic, o.src))

DistinctNext ==
    \/ Mutate
    \/ \E eq \in Rels : EDistinctTwice(eq)

SpecDistinct == Init /\ [][DistinctNext]_vars

\* -------------------------------------- collections built from a slice
\* A List other than the caller's, as a value: its nodes and its fields
EmptyList == [nodes |-> <<>>, head |-> Nil, tail |-> Nil, size |-> 0]

\* an Add that does not link the old tail to the new node
AddTo_NoTailLink(l, v) ==
    IF l.head = Nil
    THEN [nodes |-> Append(l.nodes, Node(v)), head |-> Len(l.nodes) + 1,
          tail |-> Len(l.nodes) + 1, size |-> l.size + 1]
    ELSE [nodes |-> Append(l.nodes, [Node(v) EXCEPT !.prev = l.tail]),
          head |-> l.head, tail |-> Len(l.nodes) + 1, size |-> l.size + 1]

\* l.Add(v)
AddTo(l, v) ==
    IF l.head = Nil
    THEN [nodes |-> Append(l.nodes, Node(v)), head |-> Len(l.nodes) + 1,
          tail |-> Len(l.nodes) + 1, size |-> l.size + 1]
    ELSE IF l.tail = Nil THEN l
    ELSE [nodes |-> Append([l.nodes EXCEPT ![l.tail].next = Len(l.nodes) + 1],
                           [Node(v) EXCEPT !.prev = l.tail]),
          head |-> l.head, tail |-> Len(l.nodes) + 1, size |-> l.size + 1]

\* list.Add(v) for every v of the slice q
RECURSIVE AddEach(_, _)
AddEach(l, q) == IF q = <<>> THEN l ELSE AddEach(AddTo(l, Head(q)), Tail(q))

\* NewList(q)
NewListOf(q) == AddEach(EmptyList, q)

\* l.ToSlice(): the values met by following next from l.head
RECURSIVE WalkIn(_, _, _)
WalkIn(l, n, fuel) ==
    IF n = Nil \/ fuel = 0 THEN <<>>
    ELSE <<l.nodes[n].value>> \o WalkIn(l, l.nodes[n].next, fuel - 1)

ToSliceOf(l) == WalkIn(l, l.head, Len(l.nodes))

\* NewSequence(q): slices.Concat copies q into a new array
NewSequenceOf(q) == [arr |-> q, len |-> Len(q)]

\* NewSet(q): the keys of the map
NewSetOf(q) == {q[i] : i \in 1..Len(q)}

\* Set.ToSlice: the keys in the order the range over the map produces them,
\* which the language leaves open
SetToSlices(keys) ==
    {q \in [1..Cardinality(keys) -> keys] : \A i, j \in 1..Cardinality(keys) : q[i] = q[j] => i = j}

Backends == {"List", "Sequence", "Set"}

\* the slices ToSlice() of the caller's collection can return
ToSlices == IF backend = "set" THEN SetToSlices(sets[1]) ELSE {ToSlice}

\* the slices B.New(q).ToSlice() can return, and B.New(q).Length()
NewOut(b, q) ==
    IF b = "List" THEN [slices |-> {ToSliceOf(NewListOf(q))}, length |-> NewListOf(q).size]
    ELSE IF b = "Sequence"
    THEN [slices |-> {SubSeq(NewSequenceOf(q).arr, 1, NewSequenceOf(q).len)},
          length |-> NewSequenceOf(q).len]
    ELSE [slices |-> SetToSlices(NewSetOf(q)), length |-> Cardinality(NewSetOf(q))]

\* n := B.New(c.ToSlice()), then n.ToSlice() and n.Length()
ENew(b) ==
    \E q \in ToSlices : \E out \in NewOut(b, q).slices :
        /\ last' = [op |-> "New", kind |-> b, pre |-> q, out |-> out, ret |-> NewOut(b, q).length]
        /\ UNCHANGED <<backend, sets, listVars, elements, it>>

NewNext ==
    \/ Mutate
    \/ \E s \in SetIds, v \in Val : SetAdd(s, v)
    \/ \E s \in SetIds, v \in Val : SetRemove(s, v)
    \/ \E b \in Backends : ENew(b)

SpecNew == KindInit /\ [][NewNext]_vars

\* ------------------------------- a List and a Sequence driven in lockstep
\* The caller holds a List and a Sequence and makes every call on both.
TheList == [nodes |-> nodes, head |-> head, tail |-> tail, size |-> size]

\* what the two calls returned and what the two collections show afterwards
PairCall(op, a, lret, lerr, lpanic, sret, serr) ==
    [op |-> op, a |-> a,
     list |-> [ret |-> lret, err |-> lerr, panic |-> lpanic],
     seq |-> [ret |-> sret, err |-> serr, panic |-> NoPanic]]

\* l.Add(v) and c.Add(v); Push and Enqueue are the same calls
PairAdd(v) ==
    /\ backend = "both"
    /\ Len(nodes) < MaxNodes
    /\ elements.len < MaxCap
    /\ nodes' = AddTo(TheList, v).nodes
    /\ head' = AddTo(TheList, v).head
    /\ tail' = AddTo(TheList, v).tail
    /\ size' = AddTo(TheList, v).size
    /\ \E newcap \in (elements.len + 1)..MaxCap : elements' = SeqAppend(elements, v, newcap)
    /\ last' = PairCall("Add", v, Zero, NoErr,
                        IF head # Nil /\ tail = Nil THEN NilDeref ELSE NoPanic, Zero, NoErr)
    /\ UNCHANGED <<backend, sets, it>>

\* l.Pop() and c.Pop()
PairPop ==
    /\ backend = "both"
    /\ tail' = ListPopOut.tail
    /\ size' = ListPopOut.size
    /\ elements' = SeqPopOut.elements
    /\ last' = PairCall("Pop", 0, ListPopOut.ret, ListPopOut.err, ListPopOut.panic,
                        SeqPopOut.ret, SeqPopOut.err)
    /\ UNCHANGED <<backend, sets, nodes, head, it>>

\* l.Dequeue() and c.Dequeue()
PairDequeue ==
    /\ backend = "both"
    /\ head' = ListDequeueOut.head
    /\ size' = ListDequeueOut.size
    /\ elements' = SeqDequeueOut.elements
    /\ last' = PairCall("Dequeue", 0, ListDequeueOut.ret, ListDequeueOut.err, ListDequeueOut.panic,
                        SeqDequeueOut.ret, SeqDequeueOut.err)
    /\ UNCHANGED <<backend, sets, nodes, tail, it>>

\* NewList() and NewSequence()
PairInit ==
    /\ backend = "both"
    /\ nodes = <<>>
    /\ head = Nil
    /\ tail = Nil
    /\ size = 0
    /\ elements = [arr |-> <<>>, len |-> 0]
    /\ last = NoCall
    /\ sets = <<>>
    /\ it = NoIter

PairNext ==
    \/ \E v \in Val : PairAdd(v)
    \/ PairPop
    \/ PairDequeue

SpecPair == PairInit /\ [][PairNext]_vars

\* ----------------------------- what a result shares with its source
ExtractAlgs == {"Slice", "Take", "TakeRight", "Drop", "DropRight", "Init", "Tail"}

\* What alg(s, n) returns: s itself, the collection s.NewOrdered() built, or
\* s.Slice(start, end). Slice stands for s.Slice(0, n).
Extract(alg, n) ==
    LET self == [how |-> "self", start |-> 0, end |-> 0, panic |-> NoPanic]
        new == [how |-> "new", start |-> 0, end |-> 0, panic |-> NoPanic]
        slice(start, end) ==
            [how |-> "slice", start |-> start, end |-> end, panic |-> SliceOut(start, end).panic]
    IN CASE alg = "Slice" -> slice(0, n)
         [] alg = "Take" -> IF n <= 0 THEN new ELSE slice(0, Min2(n, Length))
         [] alg = "TakeRight" -> IF n <= 0 THEN new ELSE slice(Max2(Length - n, 0), Length)
         [] alg = "Drop" -> IF n <= 0 THEN self
                            ELSE IF n >= Length THEN new ELSE slice(n, Length)
         [] alg = "DropRight" -> IF n <= 0 THEN self
                                 ELSE IF n >= Length THEN new ELSE slice(0, Length - n)
         [] alg = "Init" -> IF Length = 0 THEN self ELSE slice(0, Length - 1)
         [] alg = "Tail" -> IF Length = 0 THEN self ELSE slice(1, Length)

\* the functions handed to Apply
ApplyFuncs == {[v \in 0..MaxVal |-> IF v = Zero THEN Zero ELSE MaxVal + 1 - v]}

\* the later call: Add(v) (Push is the same) or Apply(f)
Muts == [kind : {"Add"}, v : Val, f : {<<>>}] \cup [kind : {"Apply"}, v : {Zero}, f : ApplyFuncs]

\* Sequence.Apply on the elements start+1..end of the array arr
ApplyArr(arr, start, end, f) ==
    [i \in 1..Len(arr) |-> IF start < i /\ i <= end THEN f[arr[i]] ELSE arr[i]]

\* A Sequence result x of the source e = c.elements and one later call m, on
\* the result (onResult) or on the source. A result made by Slice is
\* e[start:end] and shares the array of e. The outcome: the elements of the
\* source, and the values of the result before and after the call.
SeqAfter(e, x, onResult, m, newcap) ==
    LET view(a) == IF x.how = "new" THEN <<>>
                   ELSE IF x.how = "self" THEN SubSeq(a.arr, 1, a.len)
                   ELSE SubSeq(a.arr, x.start + 1, x.end)
        applied == [e EXCEPT !.arr = ApplyArr(e.arr, 0, e.len, m.f)]
        added == SeqAppend(e, m.v, newcap)
    IN IF onResult
       THEN CASE x.how = "self" ->
                   LET e2 == IF m.kind = "Add" THEN added ELSE applied
                   IN [elements |-> e2, out |-> view(e), out2 |-> SubSeq(e2.arr, 1, e2.len)]
              [] x.how = "new" ->
                   [elements |-> e, out |-> <<>>,
                    out2 |-> IF m.kind = "Add" THEN <<m.v>> ELSE <<>>]
              [] x.how = "slice" ->
                   IF m.kind = "Apply"
                   THEN [elements |-> [e EXCEPT !.arr = ApplyArr(e.arr, x.start, x.end, m.f)],
                         out |-> view(e),
                         out2 |-> SubSeq(ApplyArr(e.arr, x.start, x.end, m.f), x.start + 1, x.end)]
                   ELSE \* append to e[start:end]: in place while end < cap
                        [elements |-> IF x.end < Cap(e)
                                      THEN [e EXCEPT !.arr[x.end + 1] = m.v] ELSE e,
                         out |-> view(e), out2 |-> Append(view(e), m.v)]
       ELSE LET e2 == IF m.kind = "Add" THEN added ELSE applied
                \* an append that moved the source to a new array leaves the result's array alone
                seen == IF x.how = "slice" /\ m.kind = "Add" /\ ~(e.len < Cap(e)) THEN e ELSE e2
            IN [elements |-> e2, out |-> view(e), out2 |-> view(seen)]

\* List.Apply on the list value l
ApplyTo(l, f) ==
    LET RECURSIVE reach(_, _)
        reach(n, fuel) == IF n = Nil \/ fuel = 0 THEN {} ELSE {n} \cup reach(l.nodes[n].next, fuel - 1)
        on == reach(l.head, Len(l.nodes))
    IN [l EXCEPT !.nodes = [i \in 1..Len(l.nodes) |->
                               IF i \in on THEN [l.nodes[i] EXCEPT !.value = f[@]] ELSE l.nodes[i]]]

\* the call m on the list value l
MutList(l, m) == IF m.kind = "Add" THEN AddTo(l, m.v) ELSE ApplyTo(l, m.f)

\* A List result x of the source l and one later call m. List.Slice and
\* NewOrdered build a list of new nodes. The outcome: the source, and the
\* values of the result before and after the call.
ListAfter(l, x, onResult, m) ==
    LET r == IF x.how = "self" THEN l
             ELSE IF x.how = "new" THEN EmptyList
             ELSE AddEach(EmptyList, SliceOut(x.start, x.end).out)
    IN IF x.how = "self"
       THEN [list |-> MutList(l, m), out |-> ToSliceOf(l), out2 |-> ToSliceOf(MutList(l, m))]
       ELSE IF onResult
       THEN [list |-> l, out |-> ToSliceOf(r), out2 |-> ToSliceOf(MutList(r, m))]
       ELSE [list |-> MutList(l, m), out |-> ToSliceOf(r), out2 |-> ToSliceOf(r)]

AliasCall(alg, n, onResult, m, pnc, post, out, out2) ==
    [op |-> alg, a |-> n, target |-> IF onResult THEN "result" ELSE "source", mut |-> m,
     panic |-> pnc, pre |-> ToSlice, post |-> post, out |-> out, out2 |-> out2]

\* r := alg(c, n), then one call on r or on c
EExtractThen(alg, n, onResult, m) ==
    /\ backend \in {"list", "seq"}
    /\ Len(nodes) < MaxNodes
    /\ elements.len < MaxCap
    /\ LET x == Extract(alg, n) IN
         IF x.panic # NoPanic
         THEN /\ last' = AliasCall(alg, n, onResult, m, x.panic, ToSlice, <<>>, <<>>)
              /\ UNCHANGED <<listVars, elements>>
         ELSE IF backend = "seq"
         THEN /\ \E newcap \in (elements.len + 1)..MaxCap :
                   LET o == SeqAfter(elements, x, onResult, m, newcap) IN
                     /\ elements' = o.elements
                     /\ last' = AliasCall(alg, n, onResult, m, NoPanic,
                                          SubSeq(o.elements.arr, 1, o.elements.len), o.out, o.out2)
              /\ UNCHANGED listVars
         ELSE LET o == ListAfter(TheList, x, onResult, m) IN
                /\ nodes' = o.list.nodes
                /\ head' = o.list.head
                /\ tail' = o.list.tail
                /\ size' = o.list.size
                /\ last' = AliasCall(alg, n, onResult, m, NoPanic, ToSliceOf(o.list), o.out, o.out2)
                /\ UNCHANGED elements
    /\ UNCHANGED <<backend, sets, it>>

\* Add and Pop bring the collection to every Length() the algorithms branch on
AliasNext ==
    \/ \E v \in Val : ListAdd(v)
    \/ ListPop
    \/ \E v \in Val : SeqAdd(v)
    \/ SeqPop
    \/ \E alg \in ExtractAlgs \ {"Init", "Tail"}, n \in KindIdx, onResult \in BOOLEAN, m \in Muts :
          EExtractThen(alg, n, onResult, m)
    \/ \E alg \in {"Init", "Tail"}, onResult \in BOOLEAN, m \in Muts :
          EExtractThen(alg, 0, onResult, m)

SpecAlias == Init /\ [][AliasNext]_vars

\* ------------------------------------- Take, TakeRight, Drop, DropRight
\* TakeRight(s, n)
TakeRightOut(n) ==
    IF n <= 0 THEN [out |-> <<>>, panic |-> NoPanic]
    ELSE SliceOut(Max2(Length - n, 0), Length)

\* DropRight(s, n)
DropRightOut(n) ==
    IF n <= 0 THEN [out |-> ToSlice, panic |-> NoPanic]
    ELSE IF n >= Length THEN [out |-> <<>>, panic |-> NoPanic]
    ELSE SliceOut(0, Length - n)

\* Length() of the collection Drop or DropRight returned with elements out:
\* s itself for n <= 0, else a collection built from out
DroppedLength(n, out) == IF n <= 0 THEN Length ELSE Len(out)

\* the elements of the collection by index: At(0) .. At(Length() - 1)
ByIndex == [j \in 1..Length |-> AtOut(j - 1).ret]

\* r := Take(s, n) and the three others; ret is r.Length(), out is r.ToSlice()
\* and out2 the elements of s by index
ETakeN(n) ==
    EagerStep(ECall("Take", n, <<>>, Len(TakeOut(n).out), TakeOut(n).out, ByIndex, NoErr,
                    TakeOut(n).panic, ToSlice))

ETakeRight(n) ==
    EagerStep(ECall("TakeRight", n, <<>>, Len(TakeRightOut(n).out), TakeRightOut(n).out, ByIndex,
                    NoErr, TakeRightOut(n).panic, ToSlice))

EDropN(n) ==
    EagerStep(ECall("Drop", n, <<>>, DroppedLength(n, DropOut(n).out), DropOut(n).out, ByIndex,
                    NoErr, DropOut(n).panic, ToSlice))

EDropRight(n) ==
    EagerStep(ECall("DropRight", n, <<>>, DroppedLength(n, DropRightOut(n).out),
                    DropRightOut(n).out, ByIndex, NoErr, DropRightOut(n).panic, ToSlice))

TakeNext ==
    \/ Mutate
    \/ \E n \in Idx : ETakeN(n)
    \/ \E n \in Idx : ETakeRight(n)
    \/ \E n \in Idx : EDropN(n)
    \/ \E n \in Idx : EDropRight(n)

SpecTake == Init /\ [][TakeNext]_vars

\* ---------------------------------------------------------------- claims
IsList == backend = "list"
Front(q) == SubSeq(q, 1, Len(q) - 1)
Ran(op) == last.op = op

\* C1: on a List, Length() equals the number of nodes reachable from head by
\* next links, i.e. len(ToSlice()) == Length(), after any sequence of
\* Add/Push/Enqueue/Pop/Dequeue calls.
C1_SizeIsReachableCount == IsList => Len(ListToSlice) = ListLength

\* C2: on a List, size == 0 holds if and only if head and tail are both nil.
C2_EmptyIffNoEnds == IsList => ((size = 0) <=> (head = Nil /\ tail = Nil))

\* C3: every node n reachable from head or from tail satisfies
\* n.next.prev == n when n.next exists and n.prev.next == n when n.prev exists.
C3_LinksAgree ==
    IsList =>
        \A n \in FwdNodes(head, Len(nodes)) \cup BwdNodes(tail, Len(nodes)) :
            /\ nodes[n].next # Nil => nodes[nodes[n].next].prev = n
            /\ nodes[n].prev # Nil => nodes[nodes[n].prev].next = n

\* C4: Add/Push/Enqueue(v) on a List always succeeds: it does not panic, v is
\* the last element of ToSlice() afterwards and Length() grew by exactly 1.
C4_AddAlwaysSucceeds ==
    (IsList /\ Ran("Add")) =>
        /\ last.panic = NoPanic
        /\ ListToSlice # <<>>
        /\ ListToSlice[Len(ListToSlice)] = last.a
        /\ ListLength = last.preLen + 1

\* C5: Pop on a non-empty List returns the last element of the previous
\* ToSlice() and leaves exactly the previous elements without that last one.
C5_PopRemovesLast ==
    (IsList /\ Ran("Pop") /\ last.preLen > 0) =>
        /\ last.panic = NoPanic
        /\ last.err = NoErr
        /\ last.pre # <<>>
        /\ last.ret = last.pre[Len(last.pre)]
        /\ ListToSlice = Front(last.pre)

\* C6: Dequeue on a non-empty List returns the first element of the previous
\* ToSlice() and leaves the previous ToSlice() without its first element.
C6_DequeueRemovesFirst ==
    (IsList /\ Ran("Dequeue") /\ last.preLen > 0) =>
        /\ last.panic = NoPanic
        /\ last.err = NoErr
        /\ last.pre # <<>>
        /\ last.ret = last.pre[1]
        /\ ListToSlice = Tail(last.pre)

\* C7: Pop and Dequeue called when Length() == 0, on a List or a Sequence,
\* fresh or emptied by removals, return the zero value with
\* EmptyCollectionError, do not panic and leave the collection unchanged.
C7_EmptyRemovalIsError ==
    [][(Length = 0 /\ (ListPop \/ ListDequeue \/ SeqPop \/ SeqDequeue)) =>
           /\ last'.ret = Zero
           /\ last'.err = EmptyCollectionError
           /\ last'.panic = NoPanic
           /\ UNCHANGED <<listVars, elements>>]_vars

\* a Pop answered with the error on a List that Dequeue had emptied (its
\* tail still points at a node), or on a Sequence whose array still holds
\* the removed elements
C7_Witness ==
    /\ Ran("Pop")
    /\ last.preLen = 0
    /\ last.err = EmptyCollectionError
    /\ \/ IsList /\ tail # Nil
       \/ ~IsList /\ Cap(elements) > 0

\* C8: for every lazy iterator, once the yield callback has returned false the
\* producer calls yield no further times and evaluates no further
\* predicate, mapper or equality calls.
C8_StopsWhenSignalled == it.lateYields = 0 /\ it.lateCalls = 0

\* C9: Slice(start, end) panics whenever start < 0 or end > Length() or
\* start > end, on List and Sequence, in every reachable state.
C9_SliceBoundsFatal ==
    (Ran("Slice") /\ (last.a < 0 \/ last.b > last.preLen \/ last.a > last.b)) =>
        last.panic # NoPanic

\* C10: At(i) panics with IndexOutOfBoundsError exactly when i < 0 or
\* i >= Length(); for 0 <= i < Length() it returns element i of ToSlice().
C10_AtBounds ==
    Ran("At") =>
        IF last.a < 0 \/ last.a >= last.preLen
        THEN last.panic = IndexOutOfBoundsError
        ELSE /\ last.panic = NoPanic
             /\ last.a < Len(last.pre)
             /\ last.ret = last.pre[last.a + 1]

\* C11: Set.Union, Set.Intersection and Set.Diff each return a new Set and
\* leave the element sets of the receiver and of the argument as they were,
\* also when receiver and argument are the same Set.
C11_SetAlgebraKeepsOperands ==
    [][\A s, s2 \in SetIds :
          (SetUnion(s, s2) \/ SetIntersection(s, s2) \/ SetDiff(s, s2)) =>
              /\ sets'[s] = sets[s]
              /\ sets'[s2] = sets[s2]
              /\ last'.res \notin {s, s2}
              /\ last'.res \in DOMAIN sets']_vars

\* a non-empty Set subtracted from itself: the result is empty, the Set is not
C11_Witness ==
    /\ backend = "set"
    /\ Ran("Diff")
    /\ last.a = last.b
    /\ sets[last.a] # {}
    /\ sets[last.res] = {}

\* C13: Set.Apply(f) leaves exactly the image { f(x) : x in the set before
\* the call }, for every f.
C13_ApplyIsImage ==
    (backend = "set" /\ Ran("Apply")) =>
        sets[last.a] = {last.f[x] : x \in last.pre[last.a]}

\* the index of the first element of q whose key is the largest (up) or the smallest
FirstExtreme(q, f, up) ==
    CHOOSE i \in 1..Len(q) :
        /\ \A j \in 1..Len(q) : IF up THEN f[q[j]] <= f[q[i]] ELSE f[q[j]] >= f[q[i]]
        /\ \A j \in 1..(i - 1) : f[q[j]] # f[q[i]]

\* C14: on a non-empty ordered collection MaxBy(f) / MinBy(f) return the
\* element with the largest / smallest f-value, the first one in iteration
\* order when several share it.
C14_ExtremeFirstWins ==
    ((Ran("MaxBy") \/ Ran("MinBy")) /\ last.preLen > 0) =>
        /\ last.panic = NoPanic
        /\ last.err = NoErr
        /\ last.pre # <<>>
        /\ last.ret = last.pre[FirstExtreme(last.pre, last.f, Ran("MaxBy"))]

\* C18: Head, Last, MaxBy and MinBy on a collection with Length() == 0 return
\* the zero value with EmptyCollectionError and do not panic.
C18_EmptyQueriesAreErrors ==
    ((Ran("Head") \/ Ran("Last") \/ Ran("MaxBy") \/ Ran("MinBy")) /\ last.preLen = 0) =>
        /\ last.ret = Zero
        /\ last.err = EmptyCollectionError
        /\ last.panic = NoPanic

\* Head answered with the error on a List that Pop had emptied: its head
\* still points at a node
C18_Witness ==
    /\ Ran("Head")
    /\ IsList
    /\ size = 0
    /\ head # Nil
    /\ last.err = EmptyCollectionError

C19_TakeThenDropIsAll ==
    /\ (Ran("Take") /\ 0 <= last.a /\ last.a <= last.preLen) =>
          /\ last.panic = NoPanic
          /\ DropOut(last.a).panic = NoPanic
          /\ last.out \o DropOut(last.a).out = last.pre
    /\ (Ran("Drop") /\ 0 <= last.a /\ last.a <= last.preLen) =>
          /\ last.panic = NoPanic
          /\ TakeOut(last.a).panic = NoPanic
          /\ TakeOut(last.a).out \o last.out = last.pre

Occurrences(q, v) == Cardinality({i \in 1..Len(q) : q[i] = v})

Matching(q, pred) == SelectSeq(q, LAMBDA v : v \in pred)

\* C20: Filter(C, p).ToSlice() followed by FilterNot(C, p).ToSlice() is a
\* permutation of C.ToSlice(), and Filter(C, p) holds the matching elements in
\* the relative order they have in C.
C20_FilterSplitsValues ==
    /\ Ran("Filter") =>
          /\ \A v \in Val :
                Occurrences(last.out \o FilterNot(Values, last.f).out, v) = Occurrences(last.pre, v)
          /\ last.out = Matching(last.pre, last.f)
    /\ Ran("FilterNot") =>
          \A v \in Val :
              Occurrences(Filter(Values, last.f).out \o last.out, v) = Occurrences(last.pre, v)

\* Filter kept some elements and rejected others, on a List whose chain is
\* longer than its size
C20_Witness ==
    /\ Ran("Filter")
    /\ IsList
    /\ Len(last.pre) > last.preLen
    /\ last.out # <<>>
    /\ Len(last.out) < Len(last.pre)

\* the consumer took every value and the iterator function returned
FullyConsumed == it.status = "done" /\ ~it.stopped

\* C17: fully consuming a freshly created lazy iterator over an unmodified
\* source yields the elements of the eager counterpart, in the same order:
\* Filtered = Filter, Rejected = FilterNot, Diffed = Diff, Distincted =
\* Distinct, Mapped = Map, Concatenated(a, b) = a.ToSlice() then b.ToSlice().
C17_LazyEqualsEager ==
    FullyConsumed =>
        /\ it.kind = "Filtered" => it.yielded = Filter(it.s1, it.pred).out
        /\ it.kind = "Rejected" => it.yielded = FilterNot(it.s1, it.pred).out
        /\ it.kind = "Diffed" => it.yielded = Diff(it.s1, it.s2).out
        /\ it.kind = "Distincted" =>
              /\ it.yielded = Distinct(it.s1, Same).out
              /\ it.yielded = ComparableListDistinct(it.s1).out
        /\ it.kind = "DistinctedFunc" => it.yielded = Distinct(it.s1, it.eq).out
        /\ it.kind = "Mapped" => it.yielded = Map(it.s1, it.mapf)
        /\ it.kind = "Concatenated" => it.yielded = it.s1 \o it.s2

\* Diffed over a source of two elements, one of them in s2, was consumed to
\* the end
C17_Witness ==
    /\ FullyConsumed
    /\ it.kind = "Diffed"
    /\ Len(it.s1) = 2
    /\ Len(it.yielded) = 1

\* C16: every generic eager algorithm that returns a collection returns an
\* instance of the concrete kind of its input (List, ComparableList, Sequence,
\* ComparableSequence, Set).
C16_ResultHasInputKind ==
    (last.op \in UnorderedAlgs \cup OrderedAlgs \cup IndexedAlgs /\ last.panic = NoPanic) =>
        \A i \in DOMAIN last.out : last.out[i] = last.kind

\* C21: Reverse(Reverse(C)).ToSlice() = C.ToSlice() for every ordered
\* collection C in any state reachable through Add, Pop and Dequeue.
C21_ReverseIsInvolution == Ran("Reverse") => last.out2 = last.pre

\* C27: in every List state reachable through Add, Pop and Dequeue, Backward()
\* yields exactly Length() pairs, with the indices Length()-1 down to 0, each
\* pair (i, v) having v = At(i): the reverse of All().
C27_BackwardIsReverseOfAll ==
    (Ran("Backward") /\ IsList) =>
        /\ Len(last.out) = last.preLen
        /\ Len(last.out) = Len(last.pre)
        /\ \A k \in 1..Len(last.out) :
              /\ last.out[k][1] = last.preLen - k
              /\ AtOut(last.out[k][1]).panic = NoPanic
              /\ AtOut(last.out[k][1]).ret = last.out[k][2]
              /\ last.pre[Len(last.pre) - k + 1] = last.out[k][2]

\* the index of the first occurrence of v in q
FirstIndex(q, v) == CHOOSE i \in 1..Len(q) : q[i] = v /\ \A j \in 1..(i - 1) : q[j] # v

\* C22: Distinct(Distinct(C, eq), eq).ToSlice() = Distinct(C, eq).ToSlice()
\* for every eq, symmetric and transitive or not, and with == Distinct keeps
\* the first occurrence of each element, in the order of first occurrence.
C22_DistinctIsIdempotent ==
    Ran("Distinct.Distinct") =>
        /\ last.out2 = last.out
        /\ last.f = Same =>
              /\ {last.out[k] : k \in 1..Len(last.out)} = {last.pre[k] : k \in 1..Len(last.pre)}
              /\ \A k, l \in 1..Len(last.out) :
                    k < l => FirstIndex(last.pre, last.out[k]) < FirstIndex(last.pre, last.out[l])

\* Distinct with a relation that is not symmetric dropped an element, and a
\* second Distinct dropped nothing more
C22_Witness ==
    /\ Ran("Distinct.Distinct")
    /\ last.f = {p \in Val \X Val : p[1] < p[2]}
    /\ Len(last.pre) = 3
    /\ Len(last.out) = 2
    /\ last.out2 = last.out

C24_RoundTrip ==
    Ran("New") => (last.out = last.pre /\ last.ret = Len(last.pre))

\* C24 amended: the round trip is exact for the ordered backends List and
\* Sequence; a Set built from C.ToSlice() holds each distinct value once, in
\* an unspecified order, and its Length() is the number of distinct values.
C24_RoundTripOrdered ==
    Ran("New") =>
        IF last.kind \in {"List", "Sequence"}
        THEN last.out = last.pre /\ last.ret = Len(last.pre)
        ELSE /\ {last.out[i] : i \in 1..Len(last.out)} = {last.pre[i] : i \in 1..Len(last.pre)}
             /\ Len(last.out) = Cardinality({last.pre[i] : i \in 1..Len(last.pre)})
             /\ last.ret = Len(last.out)

\* a List built from the three elements ToSlice() returned for a List that
\* counts two
C24_Witness ==
    /\ Ran("New")
    /\ last.kind = "List"
    /\ IsList
    /\ size = 2
    /\ Len(last.pre) = 3
    /\ last.out = last.pre

\* C25: the same sequence of Add/Push/Enqueue/Pop/Dequeue calls made on a
\* List and on a Sequence gives, at every step, the same returned value and
\* error and the same Length() and ToSlice().
C25_BackendsAgree ==
    backend = "both" =>
        /\ last.op \in {"Add", "Pop", "Dequeue"} => last.list = last.seq
        /\ ListLength = SeqLength
        /\ ListToSlice = SeqToSlice

\* C26: a collection returned by Slice, Take, TakeRight, Drop, DropRight,
\* Init or Tail is independent of its source: a later Add/Push/Apply on it
\* leaves the source's ToSlice() unchanged, and a later Add/Push/Apply on the
\* source leaves its ToSlice() unchanged.
C26_ResultIsIndependent ==
    (last.op \in ExtractAlgs /\ last.panic = NoPanic) =>
        /\ last.target = "result" => last.post = last.pre
        /\ last.target = "source" => last.out2 = last.out

\* C28: Intersected(A, B) and IntersectedFunc(A, B, eq) yield exactly the
\* elements of A that are present in B, each occurrence in A once and in A's
\* order, however often a matching value occurs in B: the elements of the
\* eager Intersect(A, B).
C28_IntersectedEqualsIntersect ==
    (FullyConsumed /\ it.pass = 1) =>
        /\ it.kind = "Intersected" => it.yielded = Intersect(it.s1, it.s2).out
        /\ it.kind = "IntersectedFunc" =>
              it.yielded = Filter(it.s1, {t \in Val : FirstMatch(it.s2, t, it.eq).found}).out

\* C29: ranging again over the iterator value Distincted or DistinctedFunc
\* returned, the source unmodified, yields the same sequence as the first
\* time: the unique elements of the source in first-occurrence order.
C29_DistinctedRepeats ==
    (FullyConsumed /\ it.pass > 1 /\ it.kind \in {"Distincted", "DistinctedFunc"}) =>
        /\ it.yielded = it.first
        /\ it.yielded = Distinct(it.s1, it.eq).out

\* C30: Take, TakeRight, Drop and DropRight never panic, for negative n, zero
\* and n beyond Length(); with k = min(max(n, 0), Length()), Take returns the
\* first k elements of the source and TakeRight its last k, Drop returns the
\* Length() - k elements after the first k and DropRight those before the
\* last k, in the order of the source.
C30_TakeDropTotal ==
    LET k == Min2(Max2(last.a, 0), last.preLen)
        src == last.out2
        same(cnt, from) ==
            /\ last.ret = cnt
            /\ Len(last.out) >= cnt
            /\ \A j \in 1..cnt : last.out[j] = src[from + j]
    IN (last.op \in {"Take", "TakeRight", "Drop", "DropRight"}) =>
        /\ last.panic = NoPanic
        /\ Len(src) = last.preLen
        /\ last.op = "Take" => same(k, 0) /\ Len(last.out) = k
        /\ last.op = "TakeRight" => same(k, last.preLen - k) /\ Len(last.out) = k
        /\ last.op = "Drop" => same(last.preLen - k, k)
        /\ last.op = "DropRight" => same(last.preLen - k, 0)
        /\ (last.op \in {"Drop", "DropRight"} /\ last.a > 0) => Len(last.out) = last.preLen - k

====
